---- MODULE Spec2Model ----
(***************************************************************************)
(* Risk-assessment mediation layer of the NexShop / IDROCK integration:    *)
(*   - IDRockNodeSDK (services/idrockClient): validation, one HTTP call    *)
(*     with the retry interceptor, error wrapping, ClientStats, fallback   *)
(*     synthesis;                                                          *)
(*   - SecurityMiddleware (middleware/security): protectLogin,             *)
(*     protectCheckout, assessRisk(actionType);                            *)
(*   - SecurityLog (models/SecurityLog): the audit log and its log*        *)
(*     helpers.                                                            *)
(* One request is followed from its arrival to the moment the middleware   *)
(* promise settles.  The environment chooses the request, the outcome of   *)
(* every HTTP attempt and the outcome of every database operation.         *)
(***************************************************************************)
EXTENDS Integers, Sequences, FiniteSets, TLC

VARIABLES
  config,       \* the options of config/idrock the middleware reads
  pc,           \* position of the request: idle, inflight, assessed, failed, done
  req,          \* the incoming request (what Express hands to the middleware)
  ann,          \* the fields the middleware sets on req
  res,          \* the response sent by the middleware, if any
  nextCalls,    \* number of times next() has been called
  rejected,     \* the promise of the middleware (or of a direct SDK call) rejected
  call,         \* the verifyIdentity call: retry counter, attempts, result
  stats,        \* IDRockNodeSDK.stats
  securityLog,  \* rows of security_logs, in insertion order
  uuidCounter,  \* number of uuidv4() values drawn so far
  fallbacks,    \* createFallbackResponse calls made on the SDK directly:
                \* arguments and returned assessment, in call order
  handler,      \* what the route handler behind the middleware did
  calls,        \* calls made on the SDK by several callers at once: method,
                \* position and retry count of each
  collector,    \* the FingerprintCollector of the browser SDK: its memoised
                \* promise and the entropy sources of its one run
  validation,   \* a _validateUserData call made on its own: its argument,
                \* and the message of the error it threw ("" when none)
  cancelled,    \* the client of the request went away while verifyIdentity
                \* was awaited
  features,     \* config.features: the per-action protection flags
  timing,       \* stats.averageResponseTime over calls whose latency is
                \* chosen, and the latencies of the successful ones
  user,         \* the row of the one account in table users
  clock,        \* wall-clock time in minutes
  lockout,      \* history of the account: wrong-password logins since the
                \* last full login, end of the lock they earned, outcome of
                \* the last login
  inflight,     \* login handlers running at once for the account: position
                \* and loaded copy of the row of each
  started       \* the NODE_ENV of each start of the server process since

vars == <<config, pc, req, ann, res, nextCalls, rejected, call, stats,
          securityLog, uuidCounter, fallbacks, handler, calls, collector,
          validation, cancelled, features, timing,
          user, clock, lockout, inflight, started>>

\* what the middleware and the SDK leave alone while a request is mediated
sideVars == <<fallbacks, handler, calls, collector, validation, cancelled,
              features, timing,
              user, clock, lockout, inflight, started>>

----------------------------------------------------------------------------
(* Program constants *)

RetryAttempts == 3

RetryDelay == 1000

FallbackScore == 50

DefaultRiskLevel == "REVIEW"

\* risk.thresholds: the score bands of the levels (no code reads them)
ThresholdAllow == 70
ThresholdReview == 30

ValidActions == {"login", "checkout", "sensitive_action"}

EventTypes == {"login_attempt", "checkout_attempt", "risk_assessment",
               "security_alert", "auth_failure"}

ActionsTaken == {"allowed", "blocked", "requires_review",
                 "additional_auth_required", "error_fallback", "assessed",
                 "alert_generated"}

----------------------------------------------------------------------------
(* Character strings that the code inspects character by character are     *)
(* sequences of one-character strings.                                     *)

Digits == {"0", "1", "2", "3", "4", "5", "6", "7", "8", "9"}

HexDigits == Digits \cup {"a", "b", "c", "d", "e", "f",
                          "A", "B", "C", "D", "E", "F"}

IpPrivate == <<"1","9","2",".","1","6","8",".","1",".","1","0","0">>

IpNotAnIp == <<"n","o","t","-","a","n","-","i","p">>

IpBigOctet == <<"9","9","9",".","1",".","1",".","1">>

IpLoopback6 == <<":",":","1">>

IpFull6 == <<"2","0","0","1",":","d","b","8",":","0",":","0",":","0",":","0",":","0",":","1">>

IpLocalhost == <<"1","2","7",".","0",".","0",".","1">>

\* ::ffff:127.0.0.1, the form req.ip takes for IPv4 peers of a dual-stack
\* socket
IpMapped4 == <<":",":","f","f","f","f",":","1","2","7",".","0",".","0",".","1">>

IpCompressed6 == <<"2","0","0","1",":","d","b","8",":",":","1">>

IpPublic == <<"4","5",".","7","6",".","9","7",".","2","2","7">>

\* 256.1.1.1
IpOctet256 == <<"2","5","6",".","1",".","1",".","1">>

\* 1.2.3
IpThreeGroups == <<"1",".","2",".","3">>

NoAddress == <<>>

\* The addresses a connection can present (req.ip); NoAddress: none known.
RequestAddresses == {IpPrivate, IpPublic, IpNotAnIp, IpBigOctet, IpLoopback6,
                     IpFull6, NoAddress}

\* The groups of s between occurrences of sep, as String.prototype.split.
RECURSIVE SplitFrom(_, _, _, _)
SplitFrom(s, sep, i, cur) ==
  IF i > Len(s) THEN <<cur>>
  ELSE IF s[i] = sep THEN <<cur>> \o SplitFrom(s, sep, i + 1, <<>>)
  ELSE SplitFrom(s, sep, i + 1, Append(cur, s[i]))

Split(s, sep) == SplitFrom(s, sep, 1, <<>>)

AllIn(g, alphabet) == \A i \in 1..Len(g) : g[i] \in alphabet

\* /^(?:[0-9]{1,3}\.){3}[0-9]{1,3}$/
MatchesIPv4Regex(s) ==
  LET g == Split(s, ".")
  IN /\ Len(g) = 4
     /\ \A k \in 1..4 : Len(g[k]) \in 1..3 /\ AllIn(g[k], Digits)

\* /^(?:[0-9a-fA-F]{1,4}:){7}[0-9a-fA-F]{1,4}$/
MatchesIPv6Regex(s) ==
  LET g == Split(s, ":")
  IN /\ Len(g) = 8
     /\ \A k \in 1..8 : Len(g[k]) \in 1..4 /\ AllIn(g[k], HexDigits)

\* ipRegex.test(userData.ipAddress)
IpRegexTest(s) == MatchesIPv4Regex(s) \/ MatchesIPv6Regex(s)

----------------------------------------------------------------------------
(* Values *)

\* Correlation ids.  src tells who issued the id, n tells which one it is.
NullId == [src |-> "null", n |-> 0]

ServiceId == [src |-> "service", n |-> 1]

FallbackId(n) == [src |-> "fallback", n |-> n]

\* A number that may be null: <<>> is null, <<v>> is v.
NullNumber == <<>>

\* Strings that are undefined, null or empty are all "": the code only ever
\* tests them for truthiness.
Usernames == {"", "alice", "mallory"}

UserAgents == {"", "Mozilla"}

\* users table: username -> id
Users == [u \in {"alice"} |-> "uuid-alice"]

RiskLevels == {"ALLOW", "REVIEW", "DENY", "OTHER"}

Scores == {0, 30, 85}

\* recommendations of a response: missing, empty, or one recommendation
RecommendationChoices ==
  { [present |-> FALSE, messages |-> <<>>],
    [present |-> TRUE,  messages |-> <<>>],
    [present |-> TRUE,  messages |-> <<"Verify via email">>] }

\* A risk factor: its name, its score, and its details, a text made of a
\* fixed part and an inserted part (template string or provider payload).
Factor(name, score, fixed, inserted) ==
  [factor |-> name, score |-> score, details |-> <<fixed, inserted>>]

\* risk_factors of a response: what the provider found about the address
FactorChoices ==
  { <<Factor("ip_reputation", 85, "Clean residential address", "risk: 0")>>,
    <<Factor("ip_reputation", 45, "Proxy/VPN detected", "risk: 55")>> }

\* response.data of a 2xx answer of /api/v1/identity/verify
ServiceAssessment(level, score, recs, factors) ==
  [ risk_level          |-> level,
    confidence_score    |-> score,
    hasRecommendations  |-> recs.present,
    recommendations     |-> recs.messages,
    risk_factors        |-> factors,
    request_id          |-> ServiceId,
    metadata_request_id |-> ServiceId,
    metadata_fallback   |-> FALSE,
    fallback            |-> FALSE,
    fallback_reason     |-> "" ]

ServiceAssessments ==
  { ServiceAssessment(l, s, r, f) : l \in RiskLevels, s \in Scores,
                                    r \in RecommendationChoices,
                                    f \in FactorChoices }

NoAssessment ==
  [ risk_level          |-> "",
    confidence_score    |-> 0,
    hasRecommendations  |-> FALSE,
    recommendations     |-> <<>>,
    risk_factors        |-> <<>>,
    request_id          |-> NullId,
    metadata_request_id |-> NullId,
    metadata_fallback   |-> FALSE,
    fallback            |-> FALSE,
    fallback_reason     |-> "" ]

\* A fallback synthesis that forgets its reason argument and documents the
\* default reason.
createFallbackResponseDefaultReason(userId, reason, u) ==
  [ risk_level          |-> DefaultRiskLevel,
    confidence_score    |-> FallbackScore,
    hasRecommendations  |-> TRUE,
    recommendations     |-> <<"Manual review recommended due to service unavailability">>,
    risk_factors        |-> <<Factor("system_fallback", FallbackScore,
                                     "Risk assessment service unavailable: ",
                                     "service_unavailable")>>,
    request_id          |-> FallbackId(u + 2),
    metadata_request_id |-> FallbackId(u + 1),
    metadata_fallback   |-> FALSE,
    fallback            |-> TRUE,
    fallback_reason     |-> "service_unavailable" ]

\* A fallback synthesis whose score degrades with every fallback built so
\* far (it depends on the history of the client, not only on its arguments).
createFallbackResponseDegrading(userId, reason, u) ==
  [ risk_level          |-> DefaultRiskLevel,
    confidence_score    |-> IF u = 0 THEN FallbackScore ELSE FallbackScore - 10,
    hasRecommendations  |-> TRUE,
    recommendations     |-> <<"Manual review recommended due to service unavailability">>,
    risk_factors        |-> <<Factor("system_fallback", FallbackScore,
                                     "Risk assessment service unavailable: ",
                                     reason)>>,
    request_id          |-> FallbackId(u + 2),
    metadata_request_id |-> FallbackId(u + 1),
    metadata_fallback   |-> FALSE,
    fallback            |-> TRUE,
    fallback_reason     |-> reason ]

\* createFallbackResponse(userId, reason); u is the number of uuids drawn
\* before the call.  metadata.request_id takes the first uuid, request_id
\* the second.  metadata holds processing_time_ms, api_version, request_id
\* and mvp_scope, and no fallback flag: the flag and the reason are
\* top-level fields.
createFallbackResponse(userId, reason, u) ==
  [ risk_level          |-> DefaultRiskLevel,
    confidence_score    |-> FallbackScore,
    hasRecommendations  |-> TRUE,
    recommendations     |-> <<"Manual review recommended due to service unavailability">>,
    risk_factors        |-> <<Factor("system_fallback", FallbackScore,
                                     "Risk assessment service unavailable: ",
                                     reason)>>,
    request_id          |-> FallbackId(u + 2),
    metadata_request_id |-> FallbackId(u + 1),
    metadata_fallback   |-> FALSE,
    fallback            |-> TRUE,
    fallback_reason     |-> reason ]

\* The outcome of one HTTP attempt as axios reports it.
HttpOk == [hasResponse |-> TRUE, status |-> 200, timeout |-> FALSE]

HttpFailures ==
  { [hasResponse |-> FALSE, status |-> 0,   timeout |-> FALSE],   \* network error
    [hasResponse |-> FALSE, status |-> 0,   timeout |-> TRUE],    \* ECONNABORTED
    [hasResponse |-> TRUE,  status |-> 500, timeout |-> FALSE],
    [hasResponse |-> TRUE,  status |-> 503, timeout |-> FALSE],
    [hasResponse |-> TRUE,  status |-> 400, timeout |-> FALSE],
    [hasResponse |-> TRUE,  status |-> 404, timeout |-> FALSE] }

\* IDRockAPIError(message, originalError, statusCode); statusCode 0 is null.
NoError ==
  [thrown |-> FALSE, name |-> "", message |-> "", hasOriginalError |-> FALSE,
   statusCode |-> 0]

IDRockAPIError(message, hasOriginal, statusCode) ==
  [thrown |-> TRUE, name |-> "IDRockAPIError", message |-> message,
   hasOriginalError |-> hasOriginal, statusCode |-> statusCode]

----------------------------------------------------------------------------
(* IDRockNodeSDK *)

\* config._retryCount is undefined until the interceptor sets it.
Undefined == [defined |-> FALSE, value |-> 0]

Defined(v) == [defined |-> TRUE, value |-> v]

\* !x for x undefined or a number
JsNot(x) == ~x.defined \/ x.value = 0

\* x < n for x undefined or a number: undefined converts to NaN
JsLess(x, n) == x.defined /\ x.value < n

\* (x || 0)
JsOrZero(x) == IF x.defined THEN x.value ELSE 0

\* _validateUserData: the message of the error thrown, "" when none is.
validateUserData(userData) ==
  IF userData.userId = "" THEN "Missing required field: userId"
  ELSE IF userData.ipAddress = NoAddress THEN "Missing required field: ipAddress"
  ELSE IF userData.userAgent = "" THEN "Missing required field: userAgent"
  ELSE IF userData.actionType = "" THEN "Missing required field: actionType"
  ELSE IF userData.actionType \notin ValidActions THEN "Invalid action type"
  ELSE IF ~IpRegexTest(userData.ipAddress) THEN "Invalid IP address format"
  ELSE ""

\* A retry decision that counts the retries but does not look at the kind of
\* failure.
shouldRetryAnyFailure(retryCount, outcome) ==
  JsOrZero(retryCount) < RetryAttempts

\* The response interceptor's decision after a failed attempt.
shouldRetry(retryCount, outcome) ==
  /\ JsNot(retryCount)
  /\ JsLess(retryCount, RetryAttempts)
  /\ (~outcome.hasResponse \/ outcome.status >= 500)

\* Delay before the retry that makes the counter equal to retryCount.
Pow2(n) == IF n <= 0 THEN 1 ELSE 2 ^ n

backoffDelay(retryCount) == RetryDelay * Pow2(retryCount - 1)

\* _handleError for an axios error
handleError(outcome) ==
  IF outcome.hasResponse
  THEN IDRockAPIError("Failed to verifyIdentity: HTTP error", TRUE, outcome.status)
  ELSE IDRockAPIError("Failed to verifyIdentity: Network error or timeout", TRUE, 0)

NoCall ==
  [ retryCount  |-> Undefined,
    netAttempts |-> 0,
    outcomes    |-> <<>>,
    delays      |-> <<>>,
    result      |-> "none",
    data        |-> NoAssessment,
    error       |-> NoError ]

\* stats after a call completed
statsSuccess(s) ==
  [s EXCEPT !.totalRequests = @ + 1, !.successfulRequests = @ + 1]

statsFailure(s) ==
  [s EXCEPT !.totalRequests = @ + 1, !.failedRequests = @ + 1]

\* verifyIdentity got a 2xx response whose body is null: the counters of
\* the try block are already incremented when the log line reads
\* response.data.risk_level and throws, and the catch block counts again
statsNullBody(s) == statsFailure(statsSuccess(s))

\* stats.averageResponseTime is a JavaScript number; it is kept here as an
\* integer number of 1/AvgScale ms, which is exact for MaxTimedCalls calls
\* (every call halves at most once).
MaxTimedCalls == 4

AvgScale == 2 ^ MaxTimedCalls

\* Date.now() - startTime of a call, in ms
Latencies == {0, 10, 20, 40}

NoTiming == [average |-> 0, latencies |-> <<>>]

\* _updateAverageResponseTime(responseTime), on the scaled average
updateAverageResponseTime(average, responseTime) ==
  IF average = 0
  THEN responseTime * AvgScale
  ELSE (average + responseTime * AvgScale) \div 2

\* the TypeError of reading a property of null, wrapped by _handleError
NullBodyError ==
  IDRockAPIError("Failed to verifyIdentity: Cannot read properties of null",
                 TRUE, 0)

MaxCalls == 3

ClientMethods == {"verifyIdentity", "getAssessmentHistory", "healthCheck"}

\* a call nobody has made yet
NoClientCall ==
  [ method |-> "", status |-> "new", retryCount |-> Undefined,
    overlapped |-> FALSE ]

\* verifyIdentity up to its first await: validation, then the first attempt.
\* settledPc is where the caller resumes when the call settles at once.
VerifyBegin(userData, settledPc) ==
  LET msg == validateUserData(userData)
  IN IF msg # ""
     THEN /\ call' = [NoCall EXCEPT !.result = "error",
                                   !.error = IDRockAPIError(msg, FALSE, 0)]
          /\ stats' = statsFailure(stats)
          /\ pc' = settledPc
     ELSE /\ call' = [NoCall EXCEPT !.result = "pending", !.netAttempts = 1]
          /\ stats' = stats
          /\ pc' = "inflight"

----------------------------------------------------------------------------
(* FingerprintCollector of the browser SDK *)

\* Texts are sequences of character codes. The text a source produces is
\* abbreviated to one code; '|' keeps its own code.
Sep == 124

\* the entropy sources in the order of the array handed to allSettled
Canvas == 1
WebGL == 2
Audio == 3
BrowserFeatures == 4
Screen == 5
Timezone == 6

Sources == 1..6

MaxCollects == 2

\* what a source resolves with when it works
SourceOutput(k) == <<k>>

\* the markers the sources resolve with when they cannot work
CanvasError == <<11>>
NoWebGL == <<12>>
WebGLError == <<13>>
NoAudioContext == <<14>>
AudioTimeoutMarker == <<15>>
AudioError == <<16>>
BrowserFeaturesError == <<17>>
ScreenError == <<18>>
TimezoneError == <<19>>

Worked(k) == [value |-> SourceOutput(k), failed |-> FALSE]

Failed(marker) == [value |-> marker, failed |-> TRUE]

\* what the executor of a source can resolve with before it returns; the
\* executor of the audio source may also return with nothing resolved yet
SyncOutcomes ==
  [k \in Sources |->
     CASE k = Canvas          -> {Worked(k), Failed(CanvasError)}
       [] k = WebGL           -> {Worked(k), Failed(NoWebGL), Failed(WebGLError)}
       [] k = Audio           -> {Failed(NoAudioContext), Failed(AudioError)}
       [] k = BrowserFeatures -> {Worked(k), Failed(BrowserFeaturesError)}
       [] k = Screen          -> {Worked(k), Failed(ScreenError)}
       [] k = Timezone        -> {Worked(k), Failed(TimezoneError)}]

Unsettled == [settled |-> FALSE, value |-> <<>>, failed |-> FALSE]

\* new FingerprintCollector()
NewCollector ==
  [ promise    |-> "none",     \* fingerprintPromise: none, pending, resolved, rejected
    collects   |-> 0,          \* collect() calls so far
    runs       |-> 0,          \* _generateFingerprint() calls so far
    sources    |-> [k \in Sources |-> Unsettled],
    order      |-> <<>>,       \* the sources in the order they settled
    audioTimer |-> FALSE,      \* the 1000 ms timer of the audio source is armed
    audioLive  |-> FALSE,      \* onaudioprocess can still be called
    supported  |-> TRUE,       \* Promise.allSettled exists
    joined     |-> <<>>,
    token      |-> <<>>,
    returned   |-> <<>> ]     \* per collect() call, the run whose promise it got

\* resolve(value) of the promise of source k: the first call wins
resolveSource(c, k, outcome) ==
  IF c.sources[k].settled THEN c
  ELSE [c EXCEPT !.sources[k] = [settled |-> TRUE, value |-> outcome.value,
                                 failed |-> outcome.failed],
                 !.order = Append(@, k)]

\* An audio source without its timeout fallback.
startAudioNoTimeout(c) == [c EXCEPT !.audioLive = TRUE]

\* _getAudioFingerprint when the graph could be built: onaudioprocess is
\* installed and the timeout fallback armed
startAudio(c) == [c EXCEPT !.audioLive = TRUE, !.audioTimer = TRUE]

\* the executors of the six sources, run in array order; sync[k] is what
\* source k resolves with at once, audioStarts says the audio graph was built
RECURSIVE runSources(_, _, _, _)
runSources(c, k, sync, audioStarts) ==
  IF k > 6 THEN c
  ELSE runSources(IF k = Audio /\ audioStarts THEN startAudio(c)
                  ELSE resolveSource(c, k, sync[k]),
                  k + 1, sync, audioStarts)

\* array.join('|')
RECURSIVE join(_)
join(parts) ==
  IF parts = <<>> THEN <<>>
  ELSE IF Len(parts) = 1 THEN parts[1]
  ELSE parts[1] \o <<Sep>> \o join(Tail(parts))

Pow16 == 65536

\* hash = ((hash << 5) - hash) + char; hash = hash & hash, on a 32-bit
\* integer kept as <<high half, low half>>
HalfWords == 0..(Pow16 - 1)

hashStep[h \in HalfWords \X HalfWords, char \in 0..255] ==
  LET lo == 31 * h[2] + char
      hi == 31 * h[1] + (lo \div Pow16)
  IN <<hi % Pow16, lo % Pow16>>

\* the hash after the first i characters of str
RECURSIVE hashLoop(_, _)
hashLoop(str, i) ==
  IF i = 0 THEN <<0, 0>> ELSE hashStep[hashLoop(str, i - 1), str[i]]

\* Math.abs of the 32-bit two's complement integer
abs32[h \in HalfWords \X HalfWords] ==
  IF h[1] < Pow16 \div 2 THEN h
  ELSE << (Pow16 - 1 - h[1] + (IF h[2] = 0 THEN 1 ELSE 0)) % Pow16,
          (Pow16 - h[2]) % Pow16 >>

\* _hashString(str); toString(36) is one-to-one and left out
hashString(str) == abs32[hashLoop(str, Len(str))]

\* The settled values taken in the order in which the sources settled.
validComponentsByCompletion(c) ==
  [i \in 1..Len(c.order) |-> c.sources[c.order[i]].value]

\* components.filter(fulfilled).map(value): allSettled keeps the order of
\* the array, and no source promise ever rejects
validComponents(c) == [k \in Sources |-> c.sources[k].value]

\* _getFallbackFingerprint hashes Date.now() and Math.random(): any token
FallbackTokens == {<<0, 1>>, <<0, 2>>}

----------------------------------------------------------------------------
(* SecurityLog *)

\* x || null for a number
NumberOrNull(x) == IF x = 0 THEN NullNumber ELSE <<x>>

\* x || 'UNKNOWN'
LevelOrUnknown(x) == IF x = "" THEN "UNKNOWN" ELSE x

\* The validators and allowNull constraints of the model definition, which
\* Sequelize runs inside create().
validEvent(ev) ==
  /\ ev.event_type \in EventTypes
  /\ ev.action_taken \in ActionsTaken
  /\ ev.ip_address # NoAddress
  /\ \A i \in 1..Len(ev.confidence_score) : ev.confidence_score[i] \in 0..100

\* SecurityLog.create(ev) resolves, given that the database answers (dbOk)
createSucceeds(ev, dbOk) == dbOk /\ validEvent(ev)

logRiskAssessment(userId, ipAddress, userAgent, ra, success) ==
  [ event_type          |-> "risk_assessment",
    user_id             |-> userId,
    ip_address          |-> ipAddress,
    user_agent          |-> userAgent,
    idrock_request_id   |-> ra.request_id,
    risk_level          |-> LevelOrUnknown(ra.risk_level),
    confidence_score    |-> NumberOrNull(ra.confidence_score),
    action_taken        |-> "assessed",
    success             |-> success,
    metadata_request_id |-> ra.metadata_request_id ]

logLoginAttempt(userId, ipAddress, userAgent, success, ra, actionTaken) ==
  [ event_type          |-> "login_attempt",
    user_id             |-> userId,
    ip_address          |-> ipAddress,
    user_agent          |-> userAgent,
    idrock_request_id   |-> ra.request_id,
    risk_level          |-> LevelOrUnknown(ra.risk_level),
    confidence_score    |-> NumberOrNull(ra.confidence_score),
    action_taken        |-> actionTaken,
    success             |-> success,
    metadata_request_id |-> NullId ]

logCheckoutAttempt(userId, ipAddress, userAgent, success, ra, actionTaken) ==
  [ event_type          |-> "checkout_attempt",
    user_id             |-> userId,
    ip_address          |-> ipAddress,
    user_agent          |-> userAgent,
    idrock_request_id   |-> ra.request_id,
    risk_level          |-> LevelOrUnknown(ra.risk_level),
    confidence_score    |-> NumberOrNull(ra.confidence_score),
    action_taken        |-> actionTaken,
    success             |-> success,
    metadata_request_id |-> NullId ]

----------------------------------------------------------------------------
(* SecurityMiddleware *)

NoAnnotations ==
  [ hasAssessment          |-> FALSE,
    idrockAssessment       |-> NoAssessment,
    requiresAdditionalAuth |-> FALSE,
    requiresReview         |-> FALSE,
    hasSecurityReasons     |-> FALSE,
    securityReasons        |-> <<>>,
    idrockServiceAvailable |-> TRUE,
    riskActionType         |-> "" ]

NoResponse ==
  [ sends |-> 0, status |-> 0, error |-> "", code |-> "", message |-> "",
    hasRiskLevel |-> FALSE, riskLevel |-> "", requestId |-> NullId ]

\* nothing done yet by the route handler: no token issued, no user row saved
NoHandler ==
  [ ran |-> FALSE, token |-> "none", loginInfoUpdated |-> FALSE,
    securityScoreUpdated |-> FALSE, failedLoginHandled |-> FALSE,
    unhandled |-> FALSE ]

NoRequest == [userId |-> "", userAgent |-> "",
              actionType |-> "", kind |-> "", ip |-> NoAddress]

\* a || b for strings
Or(a, b) == IF a # "" THEN a ELSE b

\* _getClientIP: req.ip, the socket addresses (undefined exactly when req.ip
\* is), then '127.0.0.1'
getClientIP(r) == IF r.ip # NoAddress THEN r.ip ELSE IpLocalhost

\* req.user?.id: no route of the service installs an authenticator before
\* the middleware, so req.user is undefined.
reqUserId(r) == ""

\* _extractLoginUserData (req.body.username; requests carry no email)
extractLoginUserData(r) ==
  [ userId     |-> Or(r.userId, "anonymous"),
    ipAddress  |-> getClientIP(r),
    userAgent  |-> Or(r.userAgent, "unknown"),
    actionType |-> "login" ]

\* _extractCheckoutUserData (req.body.userId)
extractCheckoutUserData(r) ==
  [ userId     |-> Or(reqUserId(r), Or(r.userId, "unknown")),
    ipAddress  |-> getClientIP(r),
    userAgent  |-> Or(r.userAgent, "unknown"),
    actionType |-> "checkout" ]

\* the userData literal of assessRisk
assessRiskUserData(r) ==
  [ userId     |-> Or(reqUserId(r), Or(r.userId, "anonymous")),
    ipAddress  |-> getClientIP(r),
    userAgent  |-> Or(r.userAgent, "unknown"),
    actionType |-> r.actionType ]

\* _resolveUserId; dbOk: User.findByUsernameOrEmail does not throw
resolveUserId(identifier, dbOk) ==
  IF identifier = "" \/ identifier = "anonymous" THEN ""
  ELSE IF dbOk /\ identifier \in DOMAIN Users THEN Users[identifier]
  ELSE ""

\* The state a handler works on: w.ann, w.res, w.nextCalls, w.rejected,
\* w.log, w.uuid stand for the variables of the same meaning.
World ==
  [ ann |-> ann, res |-> res, nextCalls |-> nextCalls, rejected |-> rejected,
    log |-> securityLog, uuid |-> uuidCounter ]

callNext(w) == [w EXCEPT !.nextCalls = @ + 1]

\* res.status(status).json({error, code, riskLevel, requestId, message})
sendBlock(w, status, error, code, message, ra) ==
  [w EXCEPT !.res = [ sends |-> @.sends + 1, status |-> status,
                      error |-> error, code |-> code, message |-> message,
                      hasRiskLevel |-> TRUE, riskLevel |-> ra.risk_level,
                      requestId |-> ra.request_id ]]

\* A 503 answer that hands the text of the caught error to the client.
sendUnavailableWithDetail(w, error, code, message) ==
  [w EXCEPT !.res = [ sends |-> @.sends + 1, status |-> 503,
                      error |-> error, code |-> code,
                      message |-> call.error.message,
                      hasRiskLevel |-> FALSE, riskLevel |-> "",
                      requestId |-> NullId ]]

\* res.status(503).json({error, code, message})
sendUnavailable(w, error, code, message) ==
  [w EXCEPT !.res = [ sends |-> @.sends + 1, status |-> 503,
                      error |-> error, code |-> code, message |-> message,
                      hasRiskLevel |-> FALSE, riskLevel |-> "",
                      requestId |-> NullId ]]

throw(w) == [w EXCEPT !.rejected = TRUE]

\* SecurityLog.create whose rejection the caller swallows
createQuietly(w, ev, dbOk) ==
  IF createSucceeds(ev, dbOk) THEN [w EXCEPT !.log = Append(@, ev)] ELSE w

attach(w, ra) ==
  [w EXCEPT !.ann.hasAssessment = TRUE, !.ann.idrockAssessment = ra]

\* A catch block that lets the request proceed under fallback without
\* asking for additional authentication.
protectLoginCatchUnflagged(w, logOk) ==
  IF config.fallbackEnabled
  THEN LET fb == createFallbackResponse(Or(req.userId, "unknown"),
                                        "service_error", w.uuid)
           w1 == [attach(w, fb) EXCEPT !.ann.idrockServiceAvailable = FALSE,
                                       !.uuid = @ + 2]
           ev == logRiskAssessment(req.userId, getClientIP(req),
                                   req.userAgent, fb, FALSE)
       IN IF ~createSucceeds(ev, logOk) THEN throw(w1)
          ELSE LET w2 == [w1 EXCEPT !.log = Append(@, ev)]
               IN IF config.allowProceed
                  THEN callNext(w2)
                  ELSE sendUnavailable(w2, "Security service temporarily unavailable",
                                       "SERVICE_UNAVAILABLE",
                                       "Please try again in a few minutes")
  ELSE sendUnavailable(w, "Security service temporarily unavailable",
                       "SERVICE_UNAVAILABLE",
                       "Please try again in a few minutes")

\* catch block of protectLogin
protectLoginCatch(w, logOk) ==
  IF config.fallbackEnabled
  THEN LET fb == createFallbackResponse(Or(req.userId, "unknown"),
                                        "service_error", w.uuid)
           w1 == [attach(w, fb) EXCEPT !.ann.idrockServiceAvailable = FALSE,
                                       !.uuid = @ + 2]
           ev == logRiskAssessment(req.userId, getClientIP(req),
                                   req.userAgent, fb, FALSE)
       IN IF ~createSucceeds(ev, logOk) THEN throw(w1)
          ELSE LET w2 == [w1 EXCEPT !.log = Append(@, ev)]
               IN IF config.allowProceed
                  THEN callNext([w2 EXCEPT !.ann.requiresAdditionalAuth = TRUE])
                  ELSE sendUnavailable(w2, "Security service temporarily unavailable",
                                       "SERVICE_UNAVAILABLE",
                                       "Please try again in a few minutes")
  ELSE sendUnavailable(w, "Security service temporarily unavailable",
                       "SERVICE_UNAVAILABLE",
                       "Please try again in a few minutes")

\* protectLogin from the return of verifyIdentity on
protectLoginTry(w, ud, ra, resolveOk1, logOk1, resolveOk2, logOk2, logOk3) ==
  LET w1 == attach(w, ra)
      w2 == createQuietly(w1,
              logRiskAssessment(resolveUserId(ud.userId, resolveOk1),
                                ud.ipAddress, ud.userAgent, ra, TRUE),
              logOk1)
  IN CASE ra.risk_level = "DENY" ->
            sendBlock(createQuietly(w2,
                        logLoginAttempt(resolveUserId(ud.userId, resolveOk2),
                                        ud.ipAddress, ud.userAgent, FALSE, ra,
                                        "blocked"),
                        logOk2),
                      403, "Login blocked for security reasons",
                      "SECURITY_BLOCK",
                      "Your login attempt has been blocked due to security concerns. Please contact support if you believe this is an error.",
                      ra)
       [] ra.risk_level = "REVIEW" ->
            LET w3 == [w2 EXCEPT !.ann.requiresAdditionalAuth = TRUE]
            IN IF ra.hasRecommendations
               THEN callNext([w3 EXCEPT !.ann.hasSecurityReasons = TRUE,
                                        !.ann.securityReasons = ra.recommendations])
               ELSE protectLoginCatch(w3, logOk3)
       [] OTHER -> callNext(w2)

\* catch block of protectCheckout
protectCheckoutCatch(w) ==
  IF config.fallbackEnabled
  THEN LET fb == createFallbackResponse(Or(reqUserId(req), "unknown"),
                                        "checkout_service_error", w.uuid)
           w1 == [attach(w, fb) EXCEPT
                    !.ann.idrockServiceAvailable = FALSE,
                    !.uuid = @ + 2,
                    !.ann.requiresReview = TRUE,
                    !.ann.hasSecurityReasons = TRUE,
                    !.ann.securityReasons =
                      <<"Security service temporarily unavailable - manual review required">>]
       IN callNext(w1)
  ELSE sendUnavailable(w, "Security verification required",
                       "SECURITY_VERIFICATION_REQUIRED",
                       "Transaction cannot be processed at this time. Please try again later.")

\* protectCheckout from the return of verifyIdentity on
protectCheckoutTry(w, ud, ra, logOk1, logOk2) ==
  LET w1 == attach(w, ra)
      ev1 == logRiskAssessment(ud.userId, ud.ipAddress, ud.userAgent, ra, TRUE)
      w2 == [w1 EXCEPT !.log = Append(@, ev1)]
      ev2 == logCheckoutAttempt(ud.userId, ud.ipAddress, ud.userAgent, FALSE,
                                ra, "blocked")
  IN IF ~createSucceeds(ev1, logOk1) THEN protectCheckoutCatch(w1)
     ELSE CASE ra.risk_level = "DENY" ->
                 IF ~createSucceeds(ev2, logOk2) THEN protectCheckoutCatch(w2)
                 ELSE sendBlock([w2 EXCEPT !.log = Append(@, ev2)],
                                403, "Transaction blocked for security reasons",
                                "TRANSACTION_BLOCKED",
                                "Your transaction has been blocked due to security concerns. Please contact support.",
                                ra)
            [] ra.risk_level = "REVIEW" ->
                 LET w3 == [w2 EXCEPT !.ann.requiresReview = TRUE]
                 IN IF ra.hasRecommendations
                    THEN callNext([w3 EXCEPT !.ann.hasSecurityReasons = TRUE,
                                             !.ann.securityReasons = ra.recommendations])
                    ELSE protectCheckoutCatch(w3)
            [] OTHER -> callNext(w2)

\* the middleware of assessRisk(actionType) from the return of verifyIdentity on
assessRiskTry(w, ra) ==
  callNext([attach(w, ra) EXCEPT !.ann.riskActionType = req.actionType])

\* catch block of assessRisk: userData is declared by const inside the try
\* block and is not in scope here, so evaluating userData?.userId throws a
\* ReferenceError before createFallbackResponse is called.
assessRiskCatch(w) == throw(w)

----------------------------------------------------------------------------
(* User: the row of an account, and what the login handler does with it *)

\* failed attempts after which handleFailedLogin locks the account
LockThreshold == 5

\* length of the lock, in minutes
LockMinutes == 15

\* a DATE column or Date value: <<>> is null, <<t>> the time t in minutes
NoDate == <<>>

NewUser ==
  [ failed_login_attempts |-> 0, locked_until |-> NoDate,
    last_login_at |-> NoDate ]

\* user.isLocked() at time now
isLocked(u, now) == u.locked_until # NoDate /\ now < u.locked_until[1]

\* The fields handleFailedLogin would set if it counted the attempt without
\* ever locking the account.
handleFailedLoginNoLock(u, now) ==
  [u EXCEPT !.failed_login_attempts = @ + 1]

\* the fields user.handleFailedLogin() sets on the instance before save()
handleFailedLogin(u, now) ==
  LET n == u.failed_login_attempts + 1
  IN [u EXCEPT !.failed_login_attempts = n,
               !.locked_until = IF n >= LockThreshold
                                THEN <<now + LockMinutes>> ELSE @]

\* the fields user.updateLoginInfo(ip) sets on the instance before save()
updateLoginInfo(u, now) ==
  [u EXCEPT !.failed_login_attempts = 0, !.locked_until = NoDate,
            !.last_login_at = <<now>>]

\* instance.save(): UPDATE of the attributes that differ from the values
\* the instance was loaded with
save(stored, before, instance) ==
  [f \in DOMAIN stored |->
     IF instance[f] # before[f] THEN instance[f] ELSE stored[f]]

\* The login handler from User.findByUsernameOrEmail on, for the account
\* as loaded (u) at time now: the branch it takes, the row it leaves, the
\* token it sends. saveOk: the UPDATE of save() succeeds; logOk: the audit
\* write of the successful login succeeds. A rejected await lands in the
\* catch block, which answers 500.
loginOnRow(stored, u, now, passwordValid, flagged, saveOk, logOk) ==
  IF isLocked(u, now)
  THEN [token |-> "none", branch |-> "account_locked", row |-> stored]
  ELSE IF ~passwordValid
  THEN IF saveOk
       THEN [token |-> "none", branch |-> "invalid_password",
             row |-> save(stored, u, handleFailedLogin(u, now))]
       ELSE [token |-> "none", branch |-> "error", row |-> stored]
  ELSE IF flagged
  THEN [token |-> "verification", branch |-> "additional_auth_required",
        row |-> stored]
  ELSE IF ~saveOk
  THEN [token |-> "none", branch |-> "error", row |-> stored]
  ELSE [token |-> IF logOk THEN "session" ELSE "none", branch |-> "allowed",
        row |-> save(stored, u, updateLoginInfo(u, now))]

\* nothing has happened to the account yet
NoLockout ==
  [ wrong |-> 0, lockEnd |-> NoDate,
    last |-> [token |-> "none", passwordValid |-> FALSE, branch |-> "",
              at |-> 0] ]

MaxConcurrentLogins == 5

\* a login handler that has not loaded the user yet
NoLogin == [phase |-> "new", loaded |-> NewUser]

NoLogins == [i \in 1..MaxConcurrentLogins |-> NoLogin]

----------------------------------------------------------------------------
(* The state machine *)

\* no _validateUserData call made yet
NoValidation ==
  [ done |-> FALSE,
    context |-> [userId |-> "", ipAddress |-> NoAddress, userAgent |-> "",
                 actionType |-> ""],
    message |-> "" ]

\* config.features as shipped
DefaultFeatures == [loginProtection |-> TRUE, checkoutProtection |-> TRUE]

\* the state after construction, but for the configuration
Constructed ==
  /\ pc = "idle"
  /\ req = NoRequest
  /\ ann = NoAnnotations
  /\ res = NoResponse
  /\ nextCalls = 0
  /\ rejected = FALSE
  /\ call = NoCall
  /\ stats = [totalRequests |-> 0, successfulRequests |-> 0, failedRequests |-> 0]
  /\ securityLog = <<>>
  /\ uuidCounter = 0
  /\ fallbacks = <<>>
  /\ handler = NoHandler
  /\ calls = [i \in 1..MaxCalls |-> NoClientCall]
  /\ collector = NewCollector
  /\ validation = NoValidation
  /\ cancelled = FALSE
  /\ timing = NoTiming
  /\ user = NewUser
  /\ clock = 0
  /\ lockout = NoLockout
  /\ inflight = NoLogins
  /\ started = <<>>

Init ==
  /\ config \in [ integrationEnabled : BOOLEAN, fallbackEnabled : BOOLEAN,
                  allowProceed : BOOLEAN ]
  /\ features = DefaultFeatures
  /\ Constructed

\* the handler has run to its end (or to its throw) with world w
Finish(w) ==
  /\ ann' = w.ann
  /\ res' = w.res
  /\ nextCalls' = w.nextCalls
  /\ rejected' = w.rejected
  /\ securityLog' = w.log
  /\ uuidCounter' = w.uuid
  /\ pc' = "done"

\* A middleware is entered with request r whose identity context is userData
Enter(r, userData) ==
  /\ pc = "idle"
  /\ req' = r
  /\ IF ~config.integrationEnabled
     THEN /\ Finish(callNext(World))
          /\ UNCHANGED <<call, stats>>
     ELSE /\ VerifyBegin(userData, "failed")
          /\ UNCHANGED <<ann, res, nextCalls, rejected, securityLog, uuidCounter>>
  /\ UNCHANGED <<config, sideVars>>

\* POST /api/auth/login reaches protectLogin
ProtectLoginStart ==
  \E u \in Usernames, ip \in RequestAddresses, ua \in UserAgents :
    LET r == [userId |-> u, userAgent |-> ua,
              actionType |-> "login", kind |-> "login", ip |-> ip]
    IN Enter(r, extractLoginUserData(r))

\* POST /api/orders/checkout reaches protectCheckout
ProtectCheckoutStart ==
  \E u \in Usernames, ip \in RequestAddresses, ua \in UserAgents :
    LET r == [userId |-> u, userAgent |-> ua,
              actionType |-> "checkout", kind |-> "checkout", ip |-> ip]
    IN Enter(r, extractCheckoutUserData(r))

\* the action types the routes of /api/security hand to assessRisk
AssessActionTypes == {"generic", "login", "checkout"}

\* a request reaches a middleware built by assessRisk(actionType)
AssessRiskStart ==
  \E u \in Usernames, ip \in RequestAddresses, ua \in UserAgents,
     a \in AssessActionTypes :
    LET r == [userId |-> u, userAgent |-> ua,
              actionType |-> a, kind |-> "assess", ip |-> ip]
    IN Enter(r, assessRiskUserData(r))

\* the identity contexts a caller of the SDK can pass
DirectUserIds == {"", "u1"}

DirectActionTypes == {"", "login", "sensitive_action", "generic"}

\* verifyIdentity(userData) is called on the SDK directly
VerifyIdentityDirect ==
  \E u \in DirectUserIds, ip \in RequestAddresses, ua \in UserAgents,
     a \in DirectActionTypes :
    /\ pc = "idle"
    /\ req' = [userId |-> u, userAgent |-> ua,
               actionType |-> a, kind |-> "direct", ip |-> ip]
    /\ VerifyBegin([userId |-> u, ipAddress |-> ip, userAgent |-> ua,
                    actionType |-> a], "failed")
    /\ UNCHANGED <<config, ann, res, nextCalls, rejected, securityLog, uuidCounter>>
    /\ UNCHANGED sideVars

\* the scoring service answers 2xx: verifyIdentity returns response.data,
\* or throws when the body is null
HttpSuccess ==
  /\ pc = "inflight"
  /\ \/ \E data \in ServiceAssessments :
          /\ call' = [call EXCEPT !.outcomes = Append(@, HttpOk),
                                  !.result = "ok", !.data = data]
          /\ stats' = statsSuccess(stats)
          /\ pc' = "assessed"
     \/ /\ call' = [call EXCEPT !.outcomes = Append(@, HttpOk),
                                 !.result = "error", !.error = NullBodyError]
        /\ stats' = statsNullBody(stats)
        /\ pc' = "failed"
  /\ UNCHANGED <<config, req, ann, res, nextCalls, rejected, securityLog, uuidCounter>>
  /\ UNCHANGED sideVars

\* an attempt fails: the response interceptor either waits and sends the
\* request again, or rejects and verifyIdentity throws the wrapped error
HttpFailure ==
  \E outcome \in HttpFailures :
    /\ pc = "inflight"
    /\ IF shouldRetry(call.retryCount, outcome)
       THEN LET rc == JsOrZero(call.retryCount) + 1
            IN /\ call' = [call EXCEPT !.outcomes = Append(@, outcome),
                                      !.retryCount = Defined(rc),
                                      !.delays = Append(@, backoffDelay(rc)),
                                      !.netAttempts = @ + 1]
               /\ UNCHANGED <<stats, pc>>
       ELSE /\ call' = [call EXCEPT !.outcomes = Append(@, outcome),
                                   !.result = "error",
                                   !.error = handleError(outcome)]
            /\ stats' = statsFailure(stats)
            /\ pc' = "failed"
    /\ UNCHANGED <<config, req, ann, res, nextCalls, rejected, securityLog, uuidCounter>>
    /\ UNCHANGED sideVars

Keep == UNCHANGED <<config, req, call, stats, sideVars>>

\* protectLogin resumes after verifyIdentity returned
ProtectLoginAssessed ==
  \E resolveOk1, logOk1, resolveOk2, logOk2, logOk3 \in BOOLEAN :
    /\ pc = "assessed" /\ req.kind = "login"
    /\ Finish(protectLoginTry(World, extractLoginUserData(req), call.data,
                              resolveOk1, logOk1, resolveOk2, logOk2, logOk3))
    /\ Keep

\* protectLogin resumes after verifyIdentity threw
ProtectLoginFailed ==
  \E logOk \in BOOLEAN :
    /\ pc = "failed" /\ req.kind = "login"
    /\ Finish(protectLoginCatch(World, logOk))
    /\ Keep

\* protectCheckout resumes after verifyIdentity returned
ProtectCheckoutAssessed ==
  \E logOk1, logOk2 \in BOOLEAN :
    /\ pc = "assessed" /\ req.kind = "checkout"
    /\ Finish(protectCheckoutTry(World, extractCheckoutUserData(req), call.data,
                                 logOk1, logOk2))
    /\ Keep

\* protectCheckout resumes after verifyIdentity threw
ProtectCheckoutFailed ==
  /\ pc = "failed" /\ req.kind = "checkout"
  /\ Finish(protectCheckoutCatch(World))
  /\ Keep

\* the assessRisk middleware resumes after verifyIdentity returned
AssessRiskAssessed ==
  /\ pc = "assessed" /\ req.kind = "assess"
  /\ Finish(assessRiskTry(World, call.data))
  /\ Keep

\* the assessRisk middleware resumes after verifyIdentity threw
AssessRiskFailed ==
  /\ pc = "failed" /\ req.kind = "assess"
  /\ Finish(assessRiskCatch(World))
  /\ Keep

\* the direct caller of verifyIdentity gets the assessment
DirectReturned ==
  /\ pc = "assessed" /\ req.kind = "direct"
  /\ Finish(World)
  /\ Keep

\* the direct caller of verifyIdentity gets the error
DirectThrown ==
  /\ pc = "failed" /\ req.kind = "direct"
  /\ Finish(throw(World))
  /\ Keep

----------------------------------------------------------------------------
(* Route handlers behind protectLogin and protectCheckout *)

\* The state a route handler works on.
HandlerWorld == [res |-> res, log |-> securityLog, h |-> handler]

\* req.idrockAssessment as the handler reads it (undefined when the
\* middleware attached none)
riskAssessmentOf(a) ==
  IF a.hasAssessment THEN a.idrockAssessment ELSE NoAssessment

\* res.status(status).json(body); the body names the assessment (risk_level,
\* request_id) when withRisk
answer(w, status, error, message, withRisk, ra) ==
  [w EXCEPT !.res = [ sends |-> @.sends + 1, status |-> status,
                      error |-> error, code |-> "", message |-> message,
                      hasRiskLevel |-> withRisk,
                      riskLevel |-> IF withRisk THEN ra.risk_level ELSE "",
                      requestId |-> IF withRisk THEN ra.request_id ELSE NullId ]]

\* catch block of the login handler: one more event when the body has a
\* username, awaited unguarded, then 500
loginHandlerCatch(w, logOk) ==
  LET ev == logLoginAttempt("", getClientIP(req), req.userAgent, FALSE,
                            riskAssessmentOf(ann), "error_fallback")
      sent(w1) == answer(w1, 500, "Login failed",
                         "An error occurred during login", FALSE, NoAssessment)
  IN IF req.userId = "" THEN sent(w)
     ELSE IF createSucceeds(ev, logOk)
          THEN sent([w EXCEPT !.log = Append(@, ev)])
          ELSE [w EXCEPT !.h.unhandled = TRUE]

\* A write of the login handler that replaces the stored rows by the new
\* one (an upsert instead of an insert).
logThenAnswerReplacing(w, ev, logOk, logOk2, status, error, message, withRisk) ==
  IF createSucceeds(ev, logOk)
  THEN answer([w EXCEPT !.log = <<ev>>], status, error, message,
              withRisk, riskAssessmentOf(ann))
  ELSE loginHandlerCatch(w, logOk2)

\* await SecurityLog.logLoginAttempt(...) inside the try block, followed by
\* the answer; a rejected create lands in the catch block
logThenAnswer(w, ev, logOk, logOk2, status, error, message, withRisk) ==
  IF createSucceeds(ev, logOk)
  THEN answer([w EXCEPT !.log = Append(@, ev)], status, error, message,
              withRisk, riskAssessmentOf(ann))
  ELSE loginHandlerCatch(w, logOk2)

\* if (!user) { logLoginAttempt(user_not_found); 401 }
loginUserNotFound(w, logOk, logOk2) ==
  logThenAnswer(w, logLoginAttempt("", getClientIP(req), req.userAgent, FALSE,
                                   riskAssessmentOf(ann), "user_not_found"),
                logOk, logOk2, 401, "Invalid credentials",
                "Username or password is incorrect", FALSE)

\* the handler of POST /api/auth/login
loginHandler(w, passwordGiven, userDbOk, locked, passwordValid, logOk, logOk2) ==
  LET ra == riskAssessmentOf(ann)
      ip == getClientIP(req)
      ua == req.userAgent
      uid == Users[req.userId]
      w0 == [w EXCEPT !.h.ran = TRUE]
  IN IF req.userId = "" \/ ~passwordGiven
     THEN answer(w0, 400, "Validation failed", "", FALSE, ra)
     ELSE IF ~userDbOk THEN loginHandlerCatch(w0, logOk2)
     ELSE IF req.userId \notin DOMAIN Users
     THEN loginUserNotFound(w0, logOk, logOk2)
     ELSE IF locked
     THEN logThenAnswer(w0, logLoginAttempt(uid, ip, ua, FALSE, ra, "account_locked"),
                        logOk, logOk2, 423, "Account locked",
                        "Account is temporarily locked due to multiple failed login attempts",
                        FALSE)
     ELSE IF ~passwordValid
     THEN logThenAnswer([w0 EXCEPT !.h.failedLoginHandled = TRUE],
                        logLoginAttempt(uid, ip, ua, FALSE, ra, "invalid_password"),
                        logOk, logOk2, 401, "Invalid credentials",
                        "Username or password is incorrect", FALSE)
     ELSE IF ann.requiresAdditionalAuth /\ ann.hasAssessment
     THEN LET w1 == logThenAnswer(w0,
                      logLoginAttempt(uid, ip, ua, FALSE, ra, "additional_auth_required"),
                      logOk, logOk2, 202, "",
                      "Additional security verification required", TRUE)
          IN IF w1.res.status = 202 THEN [w1 EXCEPT !.h.token = "verification"]
             ELSE w1
     ELSE LET w1 == [w0 EXCEPT !.h.loginInfoUpdated = TRUE,
                               !.h.securityScoreUpdated =
                                  ann.hasAssessment /\ ra.confidence_score # 0]
              w2 == logThenAnswer(w1,
                      logLoginAttempt(uid, ip, ua, TRUE, ra, "allowed"),
                      logOk, logOk2, 200, "", "Login successful",
                      ann.hasAssessment)
          IN IF w2.res.status = 200 THEN [w2 EXCEPT !.h.token = "session"]
             ELSE w2

\* the handler of POST /api/orders/checkout; it writes no SecurityLog row
\* and awaits nothing that can reject
checkoutHandler(w, bodyValid) ==
  LET ra == riskAssessmentOf(ann)
      w0 == [w EXCEPT !.h.ran = TRUE]
  IN IF ~bodyValid
     THEN answer(w0, 400, "Validation failed", "", FALSE, ra)
     ELSE IF ann.requiresReview
     THEN answer(w0, 202, "", "Transaction requires additional review",
                 ann.hasAssessment, ra)
     ELSE answer(w0, 200, "", "Checkout successful", ann.hasAssessment, ra)

\* the route handler has run to its end (or to its unhandled rejection)
Answer(w) ==
  /\ res' = w.res
  /\ securityLog' = w.log
  /\ handler' = w.h
  /\ pc' = "answered"
  /\ UNCHANGED <<config, req, ann, nextCalls, rejected, call, stats,
                 uuidCounter, fallbacks, calls, collector, validation,
                 cancelled, features, timing,
                 user, clock, lockout, inflight, started>>

\* next() of protectLogin runs the login handler
LoginHandler ==
  \E passwordGiven, userDbOk, locked, passwordValid, logOk, logOk2 \in BOOLEAN :
    /\ pc = "done" /\ req.kind = "login" /\ nextCalls >= 1
    /\ Answer(loginHandler(HandlerWorld, passwordGiven, userDbOk, locked,
                           passwordValid, logOk, logOk2))

\* next() of protectCheckout runs the checkout handler
CheckoutHandler ==
  \E bodyValid \in BOOLEAN :
    /\ pc = "done" /\ req.kind = "checkout" /\ nextCalls >= 1
    /\ Answer(checkoutHandler(HandlerWorld, bodyValid))

Next ==
  \/ LoginHandler
  \/ CheckoutHandler
  \/ ProtectLoginStart
  \/ ProtectCheckoutStart
  \/ AssessRiskStart
  \/ VerifyIdentityDirect
  \/ HttpSuccess
  \/ HttpFailure
  \/ ProtectLoginAssessed
  \/ ProtectLoginFailed
  \/ ProtectCheckoutAssessed
  \/ ProtectCheckoutFailed
  \/ AssessRiskAssessed
  \/ AssessRiskFailed
  \/ DirectReturned
  \/ DirectThrown

Spec == Init /\ [][Next]_vars

----------------------------------------------------------------------------
(* Fallback synthesis called on its own *)

MaxFallbackCalls == 2

FallbackUserIds == {"unknown", "anonymous", "alice"}

\* the reasons the middleware passes, and the default of the parameter
FallbackReasons == {"service_error", "checkout_service_error",
                    "generic_assessment_error", "service_unavailable"}

\* createFallbackResponse(userId, reason) is called on the SDK
CreateFallbackDirect ==
  \E u \in FallbackUserIds, r \in FallbackReasons :
    /\ Len(fallbacks) < MaxFallbackCalls
    /\ fallbacks' = Append(fallbacks,
                      [userId |-> u, reason |-> r,
                       result |-> createFallbackResponse(u, r, uuidCounter)])
    /\ uuidCounter' = uuidCounter + 2
    /\ UNCHANGED <<config, pc, req, ann, res, nextCalls, rejected, call,
                   stats, securityLog, handler, calls, collector, validation,
                   cancelled, features, timing,
                   user, clock, lockout, inflight, started>>

FallbackNext == CreateFallbackDirect

FallbackSpec == Init /\ [][FallbackNext]_vars

----------------------------------------------------------------------------
(* Several calls on one SDK instance *)

\* identity contexts handed to verifyIdentity: one valid, one whose address
\* fails _validateUserData
ClientContexts ==
  { [userId |-> "alice", ipAddress |-> IpPrivate, userAgent |-> "Mozilla",
     actionType |-> "login"],
    [userId |-> "alice", ipAddress |-> IpNotAnIp, userAgent |-> "Mozilla",
     actionType |-> "login"] }

ClientUnchanged ==
  UNCHANGED <<config, pc, req, ann, res, nextCalls, rejected, call,
              securityLog, uuidCounter, fallbacks, handler, collector,
              validation, cancelled, features, timing,
              user, clock, lockout, inflight, started>>

InFlight(i) == calls[i].status = "inflight"

\* a caller invokes a method of the SDK: the method runs to its first await
ClientCall ==
  \E i \in 1..MaxCalls, m \in ClientMethods, ud \in ClientContexts :
    /\ calls[i].status = "new"
    /\ \A j \in 1..(i - 1) : calls[j].status # "new"
    /\ LET c == [NoClientCall EXCEPT
                   !.method = m,
                   !.overlapped = \E j \in 1..MaxCalls : InFlight(j)]
       IN IF m = "verifyIdentity" /\ validateUserData(ud) # ""
          THEN /\ calls' = [calls EXCEPT ![i] = [c EXCEPT !.status = "thrown"]]
               /\ stats' = statsFailure(stats)
          ELSE /\ calls' = [calls EXCEPT ![i] = [c EXCEPT !.status = "inflight"]]
               /\ stats' = stats
    /\ ClientUnchanged

\* the service answers 2xx to a call in flight; only verifyIdentity reads
\* into the body
ClientResponse ==
  \E i \in 1..MaxCalls, nullBody \in BOOLEAN :
    /\ InFlight(i)
    /\ IF nullBody /\ calls[i].method = "verifyIdentity"
       THEN /\ calls' = [calls EXCEPT ![i].status = "thrown"]
            /\ stats' = statsNullBody(stats)
       ELSE /\ calls' = [calls EXCEPT ![i].status = "returned"]
            /\ stats' = statsSuccess(stats)
    /\ ClientUnchanged

\* an attempt of a call in flight fails: the interceptor sends it again or
\* the method counts the failure and throws
ClientFailure ==
  \E i \in 1..MaxCalls, outcome \in HttpFailures :
    /\ InFlight(i)
    /\ IF shouldRetry(calls[i].retryCount, outcome)
       THEN /\ calls' = [calls EXCEPT ![i].retryCount =
                           Defined(JsOrZero(calls[i].retryCount) + 1)]
            /\ stats' = stats
       ELSE /\ calls' = [calls EXCEPT ![i].status = "thrown"]
            /\ stats' = statsFailure(stats)
    /\ ClientUnchanged

ClientNext == ClientCall \/ ClientResponse \/ ClientFailure

ClientSpec == Init /\ [][ClientNext]_vars

----------------------------------------------------------------------------
(* Fingerprint collection in the browser *)

FingerprintUnchanged ==
  UNCHANGED <<config, pc, req, ann, res, nextCalls, rejected, call, stats,
              securityLog, uuidCounter, fallbacks, handler, calls,
              validation, cancelled, features, timing,
              user, clock, lockout, inflight, started>>

\* A collect() that does not look at fingerprintPromise and starts
\* _generateFingerprint on every call.
CollectUnmemoised ==
  /\ collector.collects < MaxCollects
  /\ \E o1 \in SyncOutcomes[1], o2 \in SyncOutcomes[2],
        o3 \in SyncOutcomes[3], o4 \in SyncOutcomes[4],
        o5 \in SyncOutcomes[5], o6 \in SyncOutcomes[6],
        audioStarts, supported \in BOOLEAN :
       collector' =
         [runSources(collector, 1, <<o1, o2, o3, o4, o5, o6>>,
                     audioStarts) EXCEPT
            !.collects = @ + 1, !.runs = @ + 1,
            !.promise = "pending", !.supported = supported,
            !.returned = Append(@, collector.runs + 1)]
  /\ FingerprintUnchanged

\* collect(): the memoised promise, or a first _generateFingerprint whose
\* sources run up to their first callback
Collect ==
  /\ collector.collects < MaxCollects
  /\ IF collector.promise # "none"
     THEN collector' = [collector EXCEPT !.collects = @ + 1,
                                        !.returned = Append(@, collector.runs)]
     ELSE \E o1 \in SyncOutcomes[1], o2 \in SyncOutcomes[2],
             o3 \in SyncOutcomes[3], o4 \in SyncOutcomes[4],
             o5 \in SyncOutcomes[5], o6 \in SyncOutcomes[6],
             audioStarts, supported \in BOOLEAN :
            collector' =
              [runSources(collector, 1, <<o1, o2, o3, o4, o5, o6>>,
                          audioStarts) EXCEPT
                 !.collects = @ + 1, !.runs = @ + 1,
                 !.promise = "pending", !.supported = supported,
                 !.returned = Append(@, collector.runs + 1)]
  /\ FingerprintUnchanged

\* onaudioprocess is called: the graph is torn down and the samples resolve
\* the promise of the audio source (a callback that throws changes nothing)
AudioProcess ==
  /\ collector.audioLive
  /\ collector' = [resolveSource(collector, Audio, Worked(Audio)) EXCEPT
                     !.audioLive = FALSE]
  /\ FingerprintUnchanged

\* the timer of the audio source fires
AudioTimeout ==
  /\ collector.audioTimer
  /\ collector' = [resolveSource(collector, Audio, Failed(AudioTimeoutMarker))
                     EXCEPT !.audioTimer = FALSE]
  /\ FingerprintUnchanged

\* _generateFingerprint resumes: after allSettled with the hash of the
\* joined components, or in its catch block when allSettled does not exist
GenerateFingerprintSettles ==
  /\ collector.promise = "pending"
  /\ IF collector.supported
     THEN /\ \A k \in Sources : collector.sources[k].settled
          /\ \E text \in {join(validComponents(collector))} :
               collector' = [collector EXCEPT !.promise = "resolved",
                                              !.joined = text,
                                              !.token = hashString(text)]
     ELSE \E t \in FallbackTokens :
            collector' = [collector EXCEPT !.promise = "resolved", !.token = t]
  /\ FingerprintUnchanged

FingerprintNext ==
  \/ Collect
  \/ AudioProcess
  \/ AudioTimeout
  \/ GenerateFingerprintSettles

FingerprintSpec == Init /\ [][FingerprintNext]_vars

\* timers fire and promise continuations run
FingerprintLiveSpec ==
  /\ FingerprintSpec
  /\ WF_vars(AudioTimeout)
  /\ WF_vars(GenerateFingerprintSettles)

----------------------------------------------------------------------------
(* _validateUserData called on its own *)

ValidationAddresses ==
  { IpPrivate, IpLocalhost, IpPublic, IpBigOctet, IpOctet256, IpThreeGroups,
    IpNotAnIp, IpFull6, IpLoopback6, IpCompressed6, IpMapped4 }

\* identity contexts whose other fields are valid
ValidationContexts ==
  [ userId : {"alice", "anonymous"}, ipAddress : ValidationAddresses,
    userAgent : {"Mozilla"}, actionType : ValidActions ]

\* this._validateUserData(userData)
ValidateUserData ==
  \E ud \in ValidationContexts :
    /\ ~validation.done
    /\ validation' = [done |-> TRUE, context |-> ud,
                      message |-> validateUserData(ud)]
    /\ UNCHANGED <<config, pc, req, ann, res, nextCalls, rejected, call,
                   stats, securityLog, uuidCounter, fallbacks, handler, calls,
                   collector, cancelled, features, timing,
                   user, clock, lockout, inflight, started>>

ValidationNext == ValidateUserData

ValidationSpec == Init /\ [][ValidationNext]_vars

----------------------------------------------------------------------------
(* The statistics of verifyIdentity calls of chosen latency *)

\* verifyIdentity completes: with a response after ms milliseconds, or with
\* an error
VerifyIdentityTimed ==
  \E ok \in BOOLEAN, ms \in Latencies :
    /\ stats.totalRequests < MaxTimedCalls
    /\ IF ok
       THEN /\ stats' = statsSuccess(stats)
            /\ timing' =
                 [average |-> updateAverageResponseTime(timing.average, ms),
                  latencies |-> Append(timing.latencies, ms)]
       ELSE /\ stats' = statsFailure(stats)
            /\ timing' = timing
    /\ UNCHANGED <<config, pc, req, ann, res, nextCalls, rejected, call,
                   securityLog, uuidCounter, fallbacks, handler, calls,
                   collector, validation, cancelled, features, user, clock,
                   lockout, inflight, started>>

StatsNext == VerifyIdentityTimed

StatsSpec == Init /\ [][StatsNext]_vars

----------------------------------------------------------------------------
(* The server process is stopped and started again *)

MaxRestarts == 1

\* process.env.NODE_ENV of a start; the database configuration knows three
\* environments
Environments == {"unset", "development", "test", "production"}

\* The rows of table security_logs the started process finds after
\* startServer: sequelize.sync({ force: true }) drops and recreates every
\* table when NODE_ENV is development or unset, the storage of test is
\* ':memory:' and begins empty in every process, production keeps its file.
startServer(env, rows) ==
  IF env \in {"unset", "development"} THEN <<>>
  ELSE IF env = "test" THEN <<>>
  ELSE rows

\* The process ends, wherever the request is, and a new one runs
\* startServer: what the old process held in memory is gone.
Restart ==
  \E env \in Environments :
    /\ Len(started) < MaxRestarts
    /\ started' = Append(started, env)
    /\ securityLog' = startServer(env, securityLog)
    /\ pc' = "restarted"
    /\ req' = NoRequest
    /\ ann' = NoAnnotations
    /\ res' = NoResponse
    /\ nextCalls' = 0
    /\ rejected' = FALSE
    /\ call' = NoCall
    /\ stats' = [totalRequests |-> 0, successfulRequests |-> 0, failedRequests |-> 0]
    /\ handler' = NoHandler
    /\ cancelled' = FALSE
    /\ timing' = NoTiming
    /\ UNCHANGED <<config, uuidCounter, fallbacks, calls, collector,
                   validation, features, user, clock, lockout, inflight>>

RestartNext == Next \/ Restart

RestartSpec == Init /\ [][RestartNext]_vars

----------------------------------------------------------------------------
(* Logins on one account, handled one after another *)

MaxClock == 30

TickMinutes == 5

MaxAttempts == 8

LockoutUnchanged ==
  UNCHANGED <<config, pc, req, ann, res, nextCalls, rejected, call, stats,
              securityLog, uuidCounter, fallbacks, handler, calls, collector,
              validation, cancelled, features, timing, inflight, started>>

\* time passes between two requests
Tick ==
  /\ clock + TickMinutes <= MaxClock
  /\ clock' = clock + TickMinutes
  /\ UNCHANGED <<user, lockout>>
  /\ LockoutUnchanged

\* POST /api/auth/login for the account runs from the lookup of the user to
\* its answer, no other request in between. The history counts the
\* wrong-password logins since the last full login and notes when the lock
\* earned by the LockThreshold-th of them ends.
SequentialLogin ==
  \E passwordValid, flagged, saveOk, logOk \in BOOLEAN :
    LET o == loginOnRow(user, user, clock, passwordValid, flagged, saveOk, logOk)
        wrong == IF o.branch = "invalid_password" THEN lockout.wrong + 1
                 ELSE IF o.branch = "allowed" THEN 0
                 ELSE lockout.wrong
    IN /\ user.failed_login_attempts < MaxAttempts
       /\ user' = o.row
       /\ lockout' =
            [ wrong |-> wrong,
              lockEnd |-> IF o.branch = "invalid_password" /\ wrong = LockThreshold
                          THEN <<clock + LockMinutes>>
                          ELSE IF o.branch = "allowed" THEN NoDate
                          ELSE lockout.lockEnd,
              last |-> [token |-> o.token, passwordValid |-> passwordValid,
                        branch |-> o.branch, at |-> clock] ]
       /\ UNCHANGED clock
       /\ LockoutUnchanged

LockoutNext == Tick \/ SequentialLogin

LockoutSpec == Init /\ [][LockoutNext]_vars

----------------------------------------------------------------------------
(* Wrong-password logins on one account, handled at once *)

ConcurrentUnchanged ==
  UNCHANGED <<config, pc, req, ann, res, nextCalls, rejected, call, stats,
              securityLog, uuidCounter, fallbacks, handler, calls, collector,
              validation, cancelled, features, timing, clock, lockout,
              started>>

\* handler i: const user = await User.findByUsernameOrEmail(username),
\* followed by the test of user.isLocked()
LoadUser(i) ==
  /\ inflight[i].phase = "new"
  /\ inflight' = [inflight EXCEPT ![i] =
                    [phase |-> IF isLocked(user, clock) THEN "locked"
                               ELSE "loaded",
                     loaded |-> user]]
  /\ UNCHANGED user
  /\ ConcurrentUnchanged

\* handler i, the password having been found wrong:
\* await user.handleFailedLogin()
FailLogin(i) ==
  /\ inflight[i].phase = "loaded"
  /\ user' = save(user, inflight[i].loaded,
                  handleFailedLogin(inflight[i].loaded, clock))
  /\ inflight' = [inflight EXCEPT ![i].phase = "failed"]
  /\ ConcurrentUnchanged

ConcurrentNext ==
  \E i \in 1..MaxConcurrentLogins : LoadUser(i) \/ FailLogin(i)

ConcurrentSpec == Init /\ [][ConcurrentNext]_vars

----------------------------------------------------------------------------
(* The two protecting middlewares on their own *)

MediationNext ==
  \/ ProtectLoginStart
  \/ ProtectCheckoutStart
  \/ HttpSuccess
  \/ HttpFailure
  \/ ProtectLoginAssessed
  \/ ProtectLoginFailed
  \/ ProtectCheckoutAssessed
  \/ ProtectCheckoutFailed

\* The client of a login or checkout request goes away while verifyIdentity
\* is awaited: Node emits 'close' on the request. Neither middleware nor the
\* SDK registers a listener or passes an abort signal, so nothing but the
\* connection changes.
Cancel ==
  /\ pc = "inflight"
  /\ req.kind \in {"login", "checkout"}
  /\ ~cancelled
  /\ cancelled' = TRUE
  /\ UNCHANGED <<config, pc, req, ann, res, nextCalls, rejected, call, stats,
                 securityLog, uuidCounter, fallbacks, handler, calls,
                 collector, validation, features, timing,
                 user, clock, lockout, inflight, started>>

CancelNext == MediationNext \/ Cancel

CancelSpec == Init /\ [][CancelNext]_vars

\* The integration is enabled and config.features is edited: each of the two
\* protection flags is on or off.
FeatureInit ==
  /\ config \in [ integrationEnabled : {TRUE}, fallbackEnabled : BOOLEAN,
                  allowProceed : BOOLEAN ]
  /\ features \in [loginProtection : BOOLEAN, checkoutProtection : BOOLEAN]
  /\ Constructed

FeatureSpec == FeatureInit /\ [][MediationNext]_vars

----------------------------------------------------------------------------
(* Vocabulary of the properties *)

Mediated == {"login", "checkout"}

Settled == pc = "done"

\* verifyIdentity returned an assessment of the given level to a middleware
\* that has since run to its end
Returned(level) ==
  /\ Settled
  /\ req.kind \in Mediated
  /\ call.result = "ok"
  /\ call.data.risk_level = level

\* a failure after which the interceptor may send the request again
Retryable(outcome) == ~outcome.hasResponse \/ outcome.status >= 500

ClientError(outcome) ==
  outcome.hasResponse /\ outcome.status >= 400 /\ outcome.status < 500

\* verifyIdentity threw because the scoring service could not be reached or
\* answered 5xx
ServiceUnavailable ==
  /\ call.result = "error"
  /\ call.outcomes # <<>>
  /\ Retryable(call.outcomes[Len(call.outcomes)])

\* verifyIdentity threw the error of _validateUserData
InvalidInputThrown ==
  /\ call.result = "error"
  /\ call.outcomes = <<>>
  /\ ~call.error.hasOriginalError

Flagged == ann.requiresAdditionalAuth \/ ann.requiresReview

\* the middleware ended the request Allowed, Challenged, Blocked (the
\* service returned ALLOW, REVIEW, DENY) or FallbackApplied (the call failed
\* and fallback is enabled)
MediationOutcome ==
  /\ Settled
  /\ req.kind \in Mediated
  /\ ~rejected
  /\ \/ call.result = "ok" /\ call.data.risk_level \in {"ALLOW", "REVIEW", "DENY"}
     \/ call.result = "error" /\ config.fallbackEnabled

\* the assessments a settled login or checkout middleware decided on: the
\* one verifyIdentity returned, the one it attached to the request
DecisionBasis ==
  IF Settled /\ req.kind \in Mediated
  THEN (IF call.result = "ok" THEN {call.data} ELSE {})
         \cup (IF ann.hasAssessment THEN {ann.idrockAssessment} ELSE {})
  ELSE {}

RiskAssessmentEvents ==
  {i \in 1..Len(securityLog) : securityLog[i].event_type = "risk_assessment"}

\* the identity context handed to verifyIdentity for the current request
CallUserData ==
  CASE req.kind = "login"    -> extractLoginUserData(req)
    [] req.kind = "checkout" -> extractCheckoutUserData(req)
    [] req.kind = "assess"   -> assessRiskUserData(req)
    [] OTHER -> [userId |-> req.userId, ipAddress |-> req.ip,
                 userAgent |-> req.userAgent, actionType |-> req.actionType]

VerifyCalled == call.result # "none"

\* Reference syntax of IP addresses (dotted quad with octets 0..255; RFC 4291
\* text forms of IPv6, "::" compression and a trailing dotted quad included).
DigitValue ==
  [c \in Digits |->
     CASE c = "0" -> 0 [] c = "1" -> 1 [] c = "2" -> 2 [] c = "3" -> 3
       [] c = "4" -> 4 [] c = "5" -> 5 [] c = "6" -> 6 [] c = "7" -> 7
       [] c = "8" -> 8 [] c = "9" -> 9]

RECURSIVE DecimalValue(_)
DecimalValue(g) ==
  IF g = <<>> THEN 0
  ELSE 10 * DecimalValue(SubSeq(g, 1, Len(g) - 1)) + DigitValue[g[Len(g)]]

RefIPv4(s) ==
  LET g == Split(s, ".")
  IN /\ Len(g) = 4
     /\ \A k \in 1..4 : /\ Len(g[k]) \in 1..3
                        /\ AllIn(g[k], Digits)
                        /\ DecimalValue(g[k]) <= 255

RefIPv6(s) ==
  LET g == Split(s, ":")
      n == Len(g)
      v4 == n >= 2 /\ RefIPv4(g[n])
      hexEnd == IF v4 THEN n - 1 ELSE n
      empties == {k \in 1..hexEnd : g[k] = <<>>}
      groups == Cardinality((1..hexEnd) \ empties) + (IF v4 THEN 2 ELSE 0)
  IN /\ n >= 2
     /\ \A k \in (1..hexEnd) \ empties :
          Len(g[k]) \in 1..4 /\ AllIn(g[k], HexDigits)
     /\ \/ empties = {} /\ groups = 8
        \/ /\ groups <= 7
           /\ \/ \E k \in 2..(n - 1) : empties = {k}
              \/ empties = {1, 2} /\ n >= 3
              \/ empties = {n - 1, n} /\ n >= 3 /\ ~v4
              \/ empties = {1, 2, 3} /\ n = 3

RefValidIp(s) == RefIPv4(s) \/ RefIPv6(s)

\* an identity context that the contract of verifyIdentity calls invalid
InvalidContext(ud) ==
  \/ ud.userId = ""
  \/ ud.ipAddress = NoAddress
  \/ ud.userAgent = ""
  \/ ud.actionType \notin ValidActions
  \/ ~RefValidIp(ud.ipAddress)

----------------------------------------------------------------------------
(* Properties *)

\* C1: in protectLogin and protectCheckout, when verifyIdentity returned an
\* assessment with risk_level DENY, next() is not called and the request is
\* answered with a rejection carrying the assessment's correlation id and
\* its risk level.
C1_DenyNeverProceeds ==
  Returned("DENY") =>
    /\ nextCalls = 0
    /\ res.sends = 1
    /\ res.hasRiskLevel /\ res.riskLevel = "DENY"
    /\ res.requestId = call.data.request_id

\* C2: when the scoring service is unavailable, protectLogin and
\* protectCheckout proceed flagged with a REVIEW fallback assessment if
\* fallback and allowProceed are both enabled, and otherwise answer with a
\* service-unavailable rejection without calling next(); the request never
\* proceeds unflagged.
C2_UnavailablePolicy ==
  (Settled /\ req.kind \in Mediated /\ ServiceUnavailable) =>
    IF config.fallbackEnabled /\ config.allowProceed
    THEN /\ nextCalls = 1 /\ res.sends = 0
         /\ Flagged
         /\ ann.hasAssessment /\ ann.idrockAssessment.fallback
         /\ ann.idrockAssessment.risk_level = "REVIEW"
    ELSE /\ nextCalls = 0
         /\ res.sends = 1 /\ res.status = 503

\* C3: whatever verifyIdentity or the audit log does, the promise of
\* protectLogin, protectCheckout or an assessRisk middleware never rejects,
\* and the request ends in exactly one of: next() called once, one
\* rejection response sent.
C3_ExactlyOneOutcome ==
  (Settled /\ req.kind \in Mediated \cup {"assess"}) =>
    /\ ~rejected
    /\ nextCalls + res.sends = 1

\* C4: every mediation outcome of a protected login or checkout appends
\* exactly one risk_assessment event, and that event has a non-null
\* correlation id.
C4_OneRiskAssessmentEvent ==
  MediationOutcome =>
    /\ Cardinality(RiskAssessmentEvents) = 1
    /\ \A i \in RiskAssessmentEvents : securityLog[i].idrock_request_id # NullId

\* C5: a verifyIdentity call whose every attempt fails with a network
\* error, a timeout or a 5xx response surfaces the failure only after
\* RetryAttempts retries, that is after 1 + RetryAttempts attempts.
C5_RetriesBeforeExhaustion ==
  (/\ call.result = "error"
   /\ call.outcomes # <<>>
   /\ \A i \in 1..Len(call.outcomes) : Retryable(call.outcomes[i])) =>
    call.netAttempts = 1 + RetryAttempts

\* C6: within one call an attempt is repeated only after a network failure,
\* a timeout or a 5xx response; a 4xx response is the last attempt of the
\* call and the error is surfaced at once.
C6_RetryOnlyRetryable ==
  /\ \A i \in 1..Len(call.outcomes) :
       i < call.netAttempts => Retryable(call.outcomes[i])
  /\ \A i \in 1..Len(call.outcomes) :
       ClientError(call.outcomes[i]) =>
         /\ call.netAttempts = i
         /\ call.result = "error"
         /\ call.error.statusCode = call.outcomes[i].status

\* a call that received a 4xx response
C6_Witness ==
  /\ call.netAttempts = 1
  /\ Len(call.outcomes) = 1
  /\ ClientError(call.outcomes[1])
  /\ call.result = "error"

\* C7: a verifyIdentity call with a missing or empty required field, an
\* action type outside the closed set, or a malformed IP address fails with
\* an invalid-input error and sends no request to the scoring service.
C7_InvalidInputNoNetwork ==
  (VerifyCalled /\ InvalidContext(CallUserData)) =>
    /\ call.netAttempts = 0
    /\ InvalidInputThrown

\* C8: when verifyIdentity fails with an invalid-input error, protectLogin
\* and protectCheckout do not synthesize a fallback and do not let the
\* request proceed.
C8_InvalidInputNoFallback ==
  (Settled /\ req.kind \in Mediated /\ InvalidInputThrown) =>
    /\ ~(ann.hasAssessment /\ ann.idrockAssessment.fallback)
    /\ nextCalls = 0

\* C9: for every REVIEW assessment returned by verifyIdentity, whatever its
\* recommendations field holds, the request proceeds flagged, with the
\* recommendation messages as securityReasons and the returned assessment
\* attached.
C9_ReviewChallenged ==
  Returned("REVIEW") =>
    /\ nextCalls = 1 /\ res.sends = 0 /\ ~rejected
    /\ IF req.kind = "login" THEN ann.requiresAdditionalAuth
                             ELSE ann.requiresReview
    /\ ann.hasSecurityReasons
    /\ ann.securityReasons = call.data.recommendations
    /\ ann.hasAssessment /\ ann.idrockAssessment = call.data

\* C10: when verifyIdentity returned an ALLOW assessment the middleware
\* calls next() and sets none of requiresAdditionalAuth, requiresReview and
\* securityReasons.
C10_AllowUnmodified ==
  Returned("ALLOW") =>
    /\ nextCalls = 1 /\ res.sends = 0
    /\ ~ann.requiresAdditionalAuth
    /\ ~ann.requiresReview
    /\ ~ann.hasSecurityReasons

C12_FallbackPure ==
  /\ \A i, j \in 1..Len(fallbacks) :
       (fallbacks[i].userId = fallbacks[j].userId
          /\ fallbacks[i].reason = fallbacks[j].reason) =>
         /\ fallbacks[i].result.risk_level = fallbacks[j].result.risk_level
         /\ fallbacks[i].result.confidence_score = fallbacks[j].result.confidence_score
         /\ fallbacks[i].result.risk_factors = fallbacks[j].result.risk_factors
  /\ \A i \in 1..Len(fallbacks) : fallbacks[i].result.risk_level \in RiskLevels
  /\ fallbacks # <<>> =>
       /\ stats = [totalRequests |-> 0, successfulRequests |-> 0,
                   failedRequests |-> 0]
       /\ securityLog = <<>>

\* two calls with the same arguments, told apart by their correlation ids
C12_Witness ==
  /\ Len(fallbacks) >= 2
  /\ fallbacks[1].userId = fallbacks[2].userId
  /\ fallbacks[1].reason = fallbacks[2].reason
  /\ fallbacks[1].result.request_id # fallbacks[2].result.request_id

\* C13: every assessment on which protectLogin or protectCheckout bases its
\* decision has a score inside the band of its level under the default
\* thresholds: ALLOW => score >= 70, DENY => score < 30,
\* REVIEW => 30 <= score < 70.
C13_LevelMatchesThresholds ==
  \A a \in DecisionBasis :
    /\ a.risk_level = "ALLOW" => a.confidence_score >= ThresholdAllow
    /\ a.risk_level = "DENY" => a.confidence_score < ThresholdReview
    /\ a.risk_level = "REVIEW" =>
         /\ a.confidence_score >= ThresholdReview
         /\ a.confidence_score < ThresholdAllow

\* the scoring service was exhausted and the configured policy is to block
BlockingPolicy == ~config.fallbackEnabled \/ ~config.allowProceed

\* C14: when the scoring service is exhausted and the policy is to block,
\* the rejection protectLogin or protectCheckout sends carries a
\* correlation id.
C14_UnavailableCarriesCorrelationId ==
  ( /\ Settled
    /\ req.kind \in Mediated
    /\ ServiceUnavailable
    /\ BlockingPolicy
    /\ res.sends = 1 )
  => res.requestId # NullId

\* the texts of the four rejections, by code
RejectionText ==
  [ SECURITY_BLOCK |->
      [ status |-> 403, error |-> "Login blocked for security reasons",
        message |-> "Your login attempt has been blocked due to security concerns. Please contact support if you believe this is an error." ],
    TRANSACTION_BLOCKED |->
      [ status |-> 403, error |-> "Transaction blocked for security reasons",
        message |-> "Your transaction has been blocked due to security concerns. Please contact support." ],
    SERVICE_UNAVAILABLE |->
      [ status |-> 503, error |-> "Security service temporarily unavailable",
        message |-> "Please try again in a few minutes" ],
    SECURITY_VERIFICATION_REQUIRED |->
      [ status |-> 503, error |-> "Security verification required",
        message |-> "Transaction cannot be processed at this time. Please try again later." ] ]

Answered == pc = "answered" /\ handler.ran /\ res.sends = 1

\* the outcome events of the type of the protected action
OwnOutcomeEvents ==
  {i \in 1..Len(securityLog) :
     securityLog[i].event_type =
       (IF req.kind = "login" THEN "login_attempt" ELSE "checkout_attempt")}

\* C16: when the login or checkout handler answers a request to which
\* mediation attached an assessment, the audit log holds exactly one
\* event of the action's own type (login_attempt, checkout_attempt), and
\* its correlation id is the request_id of the attached assessment.
C16_OneOutcomeEvent ==
  (Answered /\ ann.hasAssessment) =>
    /\ Cardinality(OwnOutcomeEvents) = 1
    /\ \A i \in OwnOutcomeEvents :
         securityLog[i].idrock_request_id = ann.idrockAssessment.request_id

\* C17: every step of the mediation layer leaves the stored events in
\* place and unchanged: the audit log before the step is a prefix of the
\* audit log after it.
C17_AppendOnly ==
  [][ /\ Len(securityLog') >= Len(securityLog)
      /\ SubSeq(securityLog', 1, Len(securityLog)) = securityLog ]_vars

\* the handler appended its event behind the event of the middleware
C17_Witness ==
  /\ pc = "answered"
  /\ Len(securityLog) >= 2
  /\ securityLog[1].event_type = "risk_assessment"
  /\ securityLog[Len(securityLog)].event_type = "login_attempt"

\* calls that have returned or thrown
Completed == {i \in 1..MaxCalls : calls[i].status \in {"returned", "thrown"}}

\* C18: every completed call of verifyIdentity, getAssessmentHistory or
\* healthCheck is counted exactly once: totalRequests equals the number of
\* completed calls and equals successfulRequests + failedRequests.
C18_CountedOnce ==
  /\ stats.totalRequests = Cardinality(Completed)
  /\ stats.totalRequests = stats.successfulRequests + stats.failedRequests

\* every call made has completed, and at least one of them was made
\* while another was in flight
AllCompletedOverlapped ==
  /\ \A i \in 1..MaxCalls : calls[i].status # "inflight"
  /\ \E i \in 1..MaxCalls : calls[i].overlapped

\* C19: once calls that were in flight at the same time have all
\* completed, in whatever order, totalRequests has grown by the number of
\* calls, successfulRequests by the number that returned and
\* failedRequests by the number that threw.
C19_NoLostUpdate ==
  AllCompletedOverlapped =>
    /\ stats.totalRequests = Cardinality(Completed)
    /\ stats.successfulRequests =
         Cardinality({i \in Completed : calls[i].status = "returned"})
    /\ stats.failedRequests =
         Cardinality({i \in Completed : calls[i].status = "thrown"})

\* C20: every risk_assessment event written by protectLogin or
\* protectCheckout has a user_id that is null or the id of the users row
\* found for the identifier of the request, never the identifier itself.
C20_ResolvedUserIdOrNull ==
  req.kind \in Mediated =>
    \A i \in RiskAssessmentEvents :
      \/ securityLog[i].user_id = ""
      \/ /\ CallUserData.userId \in DOMAIN Users
         /\ securityLog[i].user_id = Users[CallUserData.userId]

SourceMarkers ==
  [k \in Sources |->
     CASE k = Canvas          -> {CanvasError}
       [] k = WebGL           -> {NoWebGL, WebGLError}
       [] k = Audio           -> {NoAudioContext, AudioTimeoutMarker, AudioError}
       [] k = BrowserFeatures -> {BrowserFeaturesError}
       [] k = Screen          -> {ScreenError}
       [] k = Timezone        -> {TimezoneError}]

\* the fingerprint was generated from the sources (not in the catch block)
Generated == collector.promise = "resolved" /\ collector.supported

ErrorSignature(e) == [name |-> e.name, statusCode |-> e.statusCode]

\* the errors verifyIdentity throws for invalid identity contexts
InvalidInputErrors ==
  { IDRockAPIError(validateUserData(ud), FALSE, 0) :
      ud \in {x \in ClientContexts : validateUserData(x) # ""} }

\* C22: the error verifyIdentity throws after the scoring service failed
\* (network failure, timeout, 5xx) differs in type or status from every
\* error it throws for invalid input.
C22_ServiceErrorDistinguishable ==
  ServiceUnavailable =>
    \A e \in InvalidInputErrors :
      ErrorSignature(call.error) # ErrorSignature(e)

\* C23: with the other fields valid, _validateUserData accepts an
\* identity context exactly when its ipAddress is a syntactically valid
\* IPv4 or IPv6 address by the reference validator.
C23_AcceptsExactlyValidAddresses ==
  validation.done =>
    (validation.message = "" <=> RefValidIp(validation.context.ipAddress))

\* C24: a checkout request from 45.76.97.227 whose scoring response has
\* confidence score 30 ends Blocked: protectCheckout answers 403 with the
\* correlation id and never calls next(), so the checkout handler does not
\* run.
C24_Score30Blocked ==
  ( /\ Settled
    /\ req.kind = "checkout"
    /\ req.ip = IpPublic
    /\ call.result = "ok"
    /\ call.data.confidence_score = 30 )
  => /\ res.sends = 1
     /\ res.status = 403
     /\ res.code = "TRANSACTION_BLOCKED"
     /\ res.requestId # NullId
     /\ nextCalls = 0

\* the waits of a call that used all its retries: RetryDelay * 2^(k-1) before
\* retry k, k = 1 .. RetryAttempts (1000, 2000, 4000 ms)
BackoffSchedule == [k \in 1..RetryAttempts |-> RetryDelay * 2 ^ (k - 1)]

\* C25: within one verifyIdentity call whose attempts all fail retryably,
\* the retries run one after another and the wait before retry k is
\* RetryDelay * 2^(k-1): 1000, 2000, 4000 ms with the default configuration.
C25_ExponentialBackoff ==
  ( /\ call.result = "error"
    /\ call.outcomes # <<>>
    /\ \A i \in 1..Len(call.outcomes) : Retryable(call.outcomes[i]) )
  => call.delays = BackoffSchedule

\* C26: when the client of a login or checkout request goes away while the
\* verifyIdentity call is in flight (the log holds no event of the request
\* yet), the middleware appends no SecurityEvent for the request, however
\* the call then completes.
C26_NoEventAfterCancel == cancelled => securityLog = <<>>

\* C27: with the integration enabled, a middleware whose protection flag is
\* off calls next() without calling verifyIdentity, whatever the flag of the
\* other middleware.
C27_PerActionSwitch ==
  /\ (req.kind = "login" /\ ~features.loginProtection)
       => ~VerifyCalled /\ nextCalls = 1 /\ Settled
  /\ (req.kind = "checkout" /\ ~features.checkoutProtection)
       => ~VerifyCalled /\ nextCalls = 1 /\ Settled

StoredRiskLevels == {"ALLOW", "REVIEW", "DENY", "UNKNOWN"}

\* C28: every SecurityEvent in the audit log has an event_type and an
\* action_taken of the closed sets, a risk_level in {ALLOW, REVIEW, DENY,
\* UNKNOWN} and a non-null ip_address (a write that would break this fails
\* and appends nothing).
C28_StoredEventsWellFormed ==
  \A i \in 1..Len(securityLog) :
    /\ securityLog[i].event_type \in EventTypes
    /\ securityLog[i].action_taken \in ActionsTaken
    /\ securityLog[i].risk_level \in StoredRiskLevels
    /\ securityLog[i].ip_address # NoAddress

AssessedLevels == {"ALLOW", "REVIEW", "DENY"}

\* C29: every SecurityEvent written from an assessment keeps its score: an
\* event whose risk_level is ALLOW, REVIEW or DENY has a non-null
\* confidence_score, equal to the confidence_score of the assessment whose
\* request id it records.
C29_EventKeepsScore ==
  \A i \in 1..Len(securityLog) :
    securityLog[i].risk_level \in AssessedLevels =>
      /\ securityLog[i].confidence_score # NullNumber
      /\ ( /\ call.result = "ok"
           /\ securityLog[i].idrock_request_id = call.data.request_id )
         => securityLog[i].confidence_score = <<call.data.confidence_score>>

RECURSIVE SumSeq(_)
SumSeq(q) == IF q = <<>> THEN 0 ELSE Head(q) + SumSeq(Tail(q))

\* C31: after n successful verifyIdentity calls with latencies l1..ln,
\* averageResponseTime is the arithmetic mean of l1..ln (failed calls leave
\* it as it was).
C31_AverageIsMean ==
  timing.latencies # <<>> =>
    timing.average * Len(timing.latencies) = AvgScale * SumSeq(timing.latencies)

\* C32: with the integration enabled, protectLogin and protectCheckout call
\* next() with neither requiresAdditionalAuth nor requiresReview set only
\* when verifyIdentity returned an assessment whose risk_level is ALLOW.
C32_UnflaggedOnlyOnAllow ==
  ( /\ Settled
    /\ req.kind \in Mediated
    /\ config.integrationEnabled
    /\ nextCalls = 1
    /\ ~Flagged )
  => /\ call.result = "ok"
     /\ call.data.risk_level = "ALLOW"

\* what a middleware decided, read off a world: continued or rejected, with
\* which status, flagged or not, and with which assessment attached
Enforcement(w) ==
  << w.nextCalls, w.rejected, w.res.sends, w.res.status,
     w.ann.requiresAdditionalAuth \/ w.ann.requiresReview,
     w.ann.idrockAssessment >>

\* the world protectLogin or protectCheckout would leave after the return
\* of verifyIdentity if every audit-log write succeeded
AllWritesSucceed ==
  IF req.kind = "login"
  THEN protectLoginTry(World, extractLoginUserData(req), call.data,
                       TRUE, TRUE, TRUE, TRUE, TRUE)
  ELSE protectCheckoutTry(World, extractCheckoutUserData(req), call.data,
                          TRUE, TRUE)

\* C33: a failure of an audit-log write inside protectLogin or
\* protectCheckout does not change the enforcement: for the assessment
\* verifyIdentity returned, the request is continued unflagged, continued
\* flagged or rejected as it would have been had every write succeeded, and
\* the assessment attached is the one verifyIdentity returned.
C33_LogFailureKeepsDecision ==
  [][ (pc = "assessed" /\ req.kind \in Mediated /\ pc' = "done") =>
        /\ Enforcement(World)' = Enforcement(AllWritesSucceed)
        /\ ann'.idrockAssessment = call.data ]_vars

\* protectLogin called next() after a REVIEW assessment (Challenged) or after
\* verifyIdentity failed (FallbackApplied)
ChallengedOrFallbackLogin ==
  /\ req.kind = "login"
  /\ nextCalls = 1
  /\ \/ call.result = "ok" /\ call.data.risk_level = "REVIEW"
     \/ call.result = "error"

\* the worlds the login handler can leave for a known user who is not
\* locked and gave the right password, whatever the database does
ValidCredentialAnswers ==
  { loginHandler(HandlerWorld, TRUE, userDbOk, FALSE, TRUE, logOk, logOk2) :
      userDbOk \in BOOLEAN, logOk \in BOOLEAN, logOk2 \in BOOLEAN }

HandlerAnswers(locked, passwordValid) ==
  loginHandler(HandlerWorld, TRUE, TRUE, locked, passwordValid, TRUE, TRUE)

\* the login_attempt events a world holds beyond those of the current log
AppendedLoginAttempts(w) ==
  {i \in (Len(securityLog) + 1)..Len(w.log) :
     w.log[i].event_type = "login_attempt"}

AnsweredWithEvent(w, status, actionTaken) ==
  /\ w.res.status = status
  /\ Cardinality(AppendedLoginAttempts(w)) = 1
  /\ \A i \in AppendedLoginAttempts(w) : w.log[i].action_taken = actionTaken

\* C35: the login handler answers an unknown user 401, a locked account 423
\* and a wrong password 401, and each time appends exactly one login_attempt
\* event recording the outcome: user_not_found, account_locked,
\* invalid_password.
C35_FailedLoginRecorded ==
  (pc = "done" /\ req.kind = "login" /\ nextCalls >= 1 /\ req.userId # "") =>
    IF req.userId \notin DOMAIN Users
    THEN AnsweredWithEvent(HandlerAnswers(FALSE, TRUE), 401, "user_not_found")
    ELSE /\ AnsweredWithEvent(HandlerAnswers(TRUE, TRUE), 423, "account_locked")
         /\ AnsweredWithEvent(HandlerAnswers(FALSE, FALSE), 401, "invalid_password")

FailedLogins == {i \in 1..MaxConcurrentLogins : inflight[i].phase = "failed"}

\* C37: when wrong-password logins on one account are handled at once, each
\* loading the user and then calling handleFailedLogin, the stored
\* failed_login_attempts is the number of handlers that have called it, so
\* LockThreshold of them lock the account.
C37_NoLostIncrement ==
  /\ user.failed_login_attempts = Cardinality(FailedLogins)
  /\ Cardinality(FailedLogins) >= LockThreshold => isLocked(user, clock)

\* C38: a restart of the server process removes no event of the audit log,
\* whatever NODE_ENV the new process is started with.
C38_LogSurvivesRestart ==
  [][started' # started => securityLog' = securityLog]_vars

\* C39: a fallback assessment carries one correlation id: every audit
\* event written for a fallback assessment holds in its correlation column
\* (the top-level request_id) the id of its metadata payload
\* (metadata.request_id).
C39_SingleCorrelationId ==
  \A i \in 1..Len(securityLog) :
    securityLog[i].idrock_request_id.src = "fallback" =>
      securityLog[i].idrock_request_id = securityLog[i].metadata_request_id

\* C40: on one FingerprintCollector the entropy sources run at most once,
\* however many collect() calls are made and whether or not the first is
\* still pending, and every call gets the promise of that one run, so all
\* resolve with the same token.
C40_CollectRunsOnce ==
  /\ collector.runs <= 1
  /\ Len(collector.returned) = collector.collects
  /\ \A i \in 1..Len(collector.returned) : collector.returned[i] = 1
  /\ collector.promise = "resolved" => collector.token # <<>>

\* a second collect() was called while the first was pending
C40_Witness ==
  /\ collector.collects >= 2
  /\ collector.promise = "pending"
  /\ collector.runs = 1

====
